---- MODULE Spec2Model ----
(***************************************************************************)
(* Model of gelf.Reader (src/gelf/reader.go): the receive loop of          *)
(* readToMap, chunk reassembly, compression detection, JSON decoding and   *)
(* the mapping of the decoded object onto a Message in ReadMessage.        *)
(*                                                                         *)
(* Bytes are the integers 0..255.  A Go slice is modelled by its backing   *)
(* array and its length, so that slices which share a backing array        *)
(* (cBuf, cHead, cid, ocid) alias each other here as they do in the code.  *)
(***************************************************************************)
EXTENDS Integers, Sequences, FiniteSets, TLC

VARIABLES st, wire, hist, inp, st2

vars == <<st, wire, hist, inp, st2>>

(***************************************************************************)
(* Bounds of the model.                                                    *)
(***************************************************************************)
\* longest chunk payload a datagram of the model carries
MaxPayload == 3
\* largest total (and sequence index) a chunk header of the general model declares
MaxTotal == 3
\* receives of one call explored by the general specification
MaxGot == 3

(***************************************************************************)
(* Constants of the package.  They are declared outside reader.go; the     *)
(* header length and the gzip magic are fixed by the wire format.          *)
(* ChunkSize (the capacity of the receive buffer) is scaled down to one    *)
(* header and MaxPayload payload bytes.                                    *)
(***************************************************************************)
chunkedHeaderLen == 12

ChunkSize == chunkedHeaderLen + MaxPayload

magicChunked == <<30, 15>>

magicGzip == <<31, 139>>

magicZlib == <<120>>

\* the bound of the receive loop, `got < 128`
MaxReceives == 128

(***************************************************************************)
(* Helpers.                                                                *)
(***************************************************************************)
Min(a, b) == IF a < b THEN a ELSE b

\* marks a slot of `chunks` that was never written (a nil []byte)
Nil == <<-1>>

\* s[lo:hi] of Go on the backing array arr (0-based, hi exclusive)
Slice(arr, lo, hi) == SubSeq(arr, lo + 1, hi)

\* lines 208-211: the slots appended in index order (a nil slot adds nothing);
\* halved at each step to keep the recursion shallow
RECURSIVE Concat(_)
Concat(ss) ==
    IF Len(ss) = 0 THEN <<>>
    ELSE IF Len(ss) = 1 THEN (IF ss[1] = Nil THEN <<>> ELSE ss[1])
    ELSE LET h == Len(ss) \div 2
         IN  Concat(SubSeq(ss, 1, h)) \o Concat(SubSeq(ss, h + 1, Len(ss)))

IsPrefix(p, s) == Len(p) <= Len(s) /\ SubSeq(s, 1, Len(p)) = p

RECURSIVE Reverse(_)
Reverse(s) == IF s = <<>> THEN <<>> ELSE Reverse(Tail(s)) \o <<Head(s)>>

(***************************************************************************)
(* Decoded JSON values (what encoding/json stores in an interface{}):      *)
(* nil, string, float64, bool, []interface{}, map[string]interface{}.      *)
(* A float64 is held as twice its value, so halves are exact.  An object   *)
(* is a function from keys to values; a key is a sequence of characters.   *)
(***************************************************************************)
JNull == [t |-> "null", s |-> "", n |-> 0]

JStr(x) == [t |-> "str", s |-> x, n |-> 0]

JNum(twice) == [t |-> "num", s |-> "", n |-> twice]

JBool == [t |-> "bool", s |-> "", n |-> 0]

JArr == [t |-> "arr", s |-> "", n |-> 0]

JObj == [t |-> "obj", s |-> "", n |-> 0]

EmptyObject == [k \in {} |-> JNull]

K_version == <<"v", "e", "r", "s", "i", "o", "n">>

K_host == <<"h", "o", "s", "t">>

K_short_message == <<"s", "h", "o", "r", "t", "_", "m", "e", "s", "s", "a", "g", "e">>

K_full_message == <<"f", "u", "l", "l", "_", "m", "e", "s", "s", "a", "g", "e">>

K_timestamp == <<"t", "i", "m", "e", "s", "t", "a", "m", "p">>

K_level == <<"l", "e", "v", "e", "l">>

K_facility == <<"f", "a", "c", "i", "l", "i", "t", "y">>

K_file == <<"f", "i", "l", "e">>

K_line == <<"l", "i", "n", "e">>

\* `val, ok := mapped[k]; ok` without `val != nil`
M_Present(mapped, k) == k \in DOMAIN mapped

\* `val, ok := mapped[k]; ok && val != nil`
Present(mapped, k) == k \in DOMAIN mapped /\ mapped[k].t # "null"

\* val.(string) on a value that is no string panics
AssertsString(mapped, k) == Present(mapped, k) /\ mapped[k].t # "str"

\* strconv.ParseFloat on the strings of the model: [ok, twice the value]
ParseFloat(x) ==
    CASE x = "1.5" -> [ok |-> TRUE, n |-> 3]
      [] x = "2" -> [ok |-> TRUE, n |-> 4]
      [] OTHER -> [ok |-> FALSE, n |-> 0]

\* int32(v) of a float64 held as twice its value: truncation toward zero
Int32OfFloat(twice) == IF twice >= 0 THEN twice \div 2 ELSE -((-twice) \div 2)

\* strings.HasPrefix(k, "_")
HasUnderscore(k) == Len(k) >= 1 /\ k[1] = "_"

\* the loop of lines 151-155 without `v != nil`
M_ExtraOf(mapped) ==
    LET ks == {k \in DOMAIN mapped : HasUnderscore(k)}
    IN  [x \in {Tail(k) : k \in ks} |->
            mapped[CHOOSE k \in ks : Tail(k) = x]]

\* lines 150-155: the entries moved into `extra`, keyed by k[1:len(k)]
ExtraOf(mapped) ==
    LET ks == {k \in DOMAIN mapped : HasUnderscore(k) /\ mapped[k].t # "null"}
    IN  [x \in {Tail(k) : k \in ks} |->
            mapped[CHOOSE k \in ks : Tail(k) = x]]

\* lines 157-159: msg.Extra is assigned only when extra is not empty
ExtraField(mapped) ==
    LET extra == ExtraOf(mapped)
    IN  IF DOMAIN extra # {} THEN [isNil |-> FALSE, m |-> extra]
        ELSE [isNil |-> TRUE, m |-> EmptyObject]

ZeroMessage ==
    [Version |-> "", Host |-> "", Short |-> "", Full |-> "", TimeUnix |-> 0,
     Level |-> 0, Facility |-> "", File |-> "", Line |-> 0,
     Extra |-> [isNil |-> TRUE, m |-> EmptyObject]]

\* lines 84-148: one field each
StringField(mapped, k) == IF Present(mapped, k) THEN mapped[k].s ELSE ""

NonEmptyStringField(mapped, k) ==
    IF Present(mapped, k) /\ mapped[k].s # "" THEN mapped[k].s ELSE ""

\* the switch of lines 105-113 without `case string`
M_TimeField(mapped) ==
    IF Present(mapped, K_timestamp) /\ mapped[K_timestamp].t = "num"
    THEN mapped[K_timestamp].n ELSE 0

\* lines 104-114
TimeField(mapped) ==
    IF ~Present(mapped, K_timestamp) THEN 0
    ELSE LET v == mapped[K_timestamp]
         IN  CASE v.t = "str" ->
                    IF ParseFloat(v.s).ok THEN ParseFloat(v.s).n ELSE 0
               [] v.t = "num" -> v.n
               [] OTHER -> 0

IntField(mapped, k) ==
    IF Present(mapped, k) /\ mapped[k].t = "num"
    THEN Int32OfFloat(mapped[k].n) ELSE 0

\* the type assertions of lines 85-137 that panic on a non-string value
MapPanics(mapped) ==
    \E k \in {K_version, K_host, K_short_message, K_full_message,
              K_facility, K_file} : AssertsString(mapped, k)

\* lines 82-161 of ReadMessage, for a mapping that does not panic
MapMessage(mapped) ==
    [Version |-> StringField(mapped, K_version),
     Host |-> StringField(mapped, K_host),
     Short |-> StringField(mapped, K_short_message),
     Full |-> NonEmptyStringField(mapped, K_full_message),
     TimeUnix |-> TimeField(mapped),
     Level |-> IntField(mapped, K_level),
     Facility |-> NonEmptyStringField(mapped, K_facility),
     File |-> NonEmptyStringField(mapped, K_file),
     Line |-> IntField(mapped, K_line),
     Extra |-> ExtraField(mapped)]

(***************************************************************************)
(* The libraries the reader calls, on the inputs of the model.             *)
(* compress/gzip and compress/zlib: a header followed by the deflated      *)
(* payload; deflating is an invertible transformation that is not the      *)
(* identity (here: the bytes in reverse order).  The gzip header is cut to *)
(* its magic and its compression-method byte, the zlib header is the real  *)
(* two bytes (CMF, FLG).                                                   *)
(***************************************************************************)
Deflate(p) == Reverse(p)

Inflate(b) == Reverse(b)

GzipEncode(p) == magicGzip \o <<8>> \o Deflate(p)

ZlibEncode(p) == <<120, 156>> \o Deflate(p)

\* gzip.NewReader(bytes.NewReader(buf)): reads and checks the header
GzipNewReader(buf) ==
    IF Len(buf) >= 3 /\ SubSeq(buf, 1, 2) = magicGzip /\ buf[3] = 8
    THEN [ok |-> TRUE, stream |-> Inflate(SubSeq(buf, 4, Len(buf)))]
    ELSE [ok |-> FALSE, stream |-> <<>>]

\* zlib.NewReader(bytes.NewReader(buf)): method 8, window <= 7, checksum,
\* and no preset dictionary
ZlibNewReader(buf) ==
    IF /\ Len(buf) >= 2
       /\ buf[1] % 16 = 8
       /\ buf[1] \div 16 <= 7
       /\ (buf[1] * 256 + buf[2]) % 31 = 0
       /\ (buf[2] \div 32) % 2 = 0
    THEN [ok |-> TRUE, stream |-> Inflate(SubSeq(buf, 3, Len(buf)))]
    ELSE [ok |-> FALSE, stream |-> <<>>]

\* the JSON texts of the model: {} and {"_":1}
TextEmpty == <<123, 125>>

TextExtra == <<123, 34, 95, 34, 58, 49, 125>>

JsonTexts == {TextEmpty, TextExtra}

ObjectOf(text) ==
    IF text = TextEmpty THEN EmptyObject
    ELSE [k \in {<<"_">>} |-> JNum(2)]

\* json.NewDecoder(r).Decode(&msg): decodes the first JSON value of the
\* stream into a map and does not look at what follows it
JsonDecode(stream) ==
    IF \E t \in JsonTexts : IsPrefix(t, stream)
    THEN [ok |-> TRUE,
          obj |-> ObjectOf(CHOOSE t \in JsonTexts : IsPrefix(t, stream))]
    ELSE [ok |-> FALSE, obj |-> EmptyObject]

(***************************************************************************)
(* readToMap: the state of one call.                                       *)
(*   arr    the backing array of cBuf (ChunkSize bytes), blen = len(cBuf)  *)
(*   ocid   "nil", or "alias": the slice cBuf[2:10] of that same array     *)
(*   chunks one entry per allocated slot, Nil where nothing was stored     *)
(*   reads  the calls of conn.Read made so far                             *)
(*   outcome "none" while the call runs, then "returned" (with msgNil, msg *)
(*          and err the returned pair) or "panic"                          *)
(*   buf, cHead, branch, stream: the buffer after the loop, the two bytes  *)
(*          inspected, the reader chosen and the bytes it yields           *)
(***************************************************************************)
NoErr == [kind |-> "", val |-> ""]

InitCall ==
    [pc |-> "loop", arr |-> [i \in 1..ChunkSize |-> 0], blen |-> ChunkSize,
     length |-> 0, total |-> 0, got |-> 0, ocid |-> "nil", chunks |-> <<>>,
     reads |-> 0, outcome |-> "none", msgNil |-> TRUE, msg |-> ZeroMessage,
     err |-> NoErr, buf |-> <<>>, cHead |-> <<0, 0>>, branch |-> "none",
     stream |-> <<>>]

\* a call of ReadMessage that has not been made yet
IdleCall == [InitCall EXCEPT !.pc = "idle"]

\* the loop bound written `got <= 128`
M_LoopCond(s) == s.got <= MaxReceives /\ (s.total = 0 \/ s.got < s.total)

\* line 175: the condition of the receive loop
LoopCond(s) == s.got < MaxReceives /\ (s.total = 0 \/ s.got < s.total)

\* the error returned together with the message built so far
M_Fail(s, kind, val) ==
    [s EXCEPT !.pc = "done", !.outcome = "returned", !.msgNil = FALSE,
              !.err = [kind |-> kind, val |-> val]]

\* `return nil, err` of readToMap, handed on by lines 78-80 of ReadMessage
Fail(s, kind, val) ==
    [s EXCEPT !.pc = "done", !.outcome = "returned", !.msgNil = TRUE,
              !.err = [kind |-> kind, val |-> val]]

\* a run-time panic (index out of range, failed type assertion)
Panic(s) == [s EXCEPT !.pc = "done", !.outcome = "panic"]

\* what ocid holds: the bytes 2..9 of the backing array as they are now
OcidValue(s) == Slice(s.arr, 2, 10)

\* lines 176, 179: conn.Read fills cBuf, then cBuf = cBuf[:n]
ReadInto(s, d) ==
    LET n == Min(Len(d), s.blen)
    IN  [s EXCEPT !.arr = [i \in 1..ChunkSize |->
                              IF i <= n THEN d[i] ELSE s.arr[i]],
                  !.blen = n,
                  !.reads = @ + 1]

\* lines 183-193: a datagram whose cHead is the chunked magic
ChunkStep(b) ==
    IF b.blen < chunkedHeaderLen THEN Panic(b)
    ELSE
    LET cid == Slice(b.arr, 2, 10)
        seq == b.arr[11]
        t == [b EXCEPT !.total = b.arr[12]]
    IN  IF t.ocid # "nil" /\ cid # OcidValue(t) THEN Fail(t, "oob", "")
        ELSE
        LET a == IF t.ocid = "nil"
                 THEN [t EXCEPT !.ocid = "alias",
                                !.chunks = [i \in 1..t.total |-> Nil]]
                 ELSE t
        IN  IF seq >= Len(a.chunks) THEN Panic(a)
            ELSE [a EXCEPT !.chunks[seq + 1] =
                               Slice(a.arr, chunkedHeaderLen, a.blen),
                           !.length = @ + (a.blen - chunkedHeaderLen),
                           !.got = @ + 1]

\* the unchunked datagram does not end the loop
M_PlainStep(b) ==
    IF b.total > 0 THEN Fail(b, "nonchunked", "")
    ELSE b

\* lines 194-199: any other datagram
PlainStep(b) ==
    IF b.total > 0 THEN Fail(b, "nonchunked", "")
    ELSE [b EXCEPT !.pc = "brk"]

\* lines 176-199: one iteration of the loop on a datagram that was read
Iterate(s, d) ==
    LET b == ReadInto(s, d)
    IN  IF Slice(b.arr, 0, 2) = magicChunked THEN ChunkStep(b)
        ELSE PlainStep(b)

\* the zlib test without the comparison of the first byte
M_Detect(cHead) ==
    IF cHead = magicGzip THEN "gzip"
    ELSE IF (cHead[1] * 256 + cHead[2]) % 31 = 0
         THEN "zlib"
         ELSE "plain"

\* lines 216-227: which reader is built
Detect(cHead) ==
    IF cHead = magicGzip THEN "gzip"
    ELSE IF cHead[1] = magicZlib[1] /\ (cHead[1] * 256 + cHead[2]) % 31 = 0
         THEN "zlib"
         ELSE "plain"

\* the buffer after the loop without the concatenation of lines 204-213
M_Assemble(s) == [buf |-> Slice(s.arr, 0, s.blen), arr |-> s.arr]

\* lines 203-213: the buffer and its backing array after the loop
Assemble(s) ==
    IF s.length > 0
    THEN LET data == Concat(s.chunks)
         IN  [buf |-> data,
              arr |-> IF Len(data) <= ChunkSize
                      THEN [i \in 1..ChunkSize |->
                               IF i <= Len(data) THEN data[i] ELSE s.arr[i]]
                      ELSE data]
    ELSE [buf |-> Slice(s.arr, 0, s.blen), arr |-> s.arr]

\* lines 82-161: ReadMessage on the decoded object
MapFields(s, mapped) ==
    IF MapPanics(mapped) THEN Panic(s)
    ELSE [s EXCEPT !.pc = "done", !.outcome = "returned", !.msgNil = FALSE,
                   !.msg = MapMessage(mapped)]

\* lines 203-237 and, in ReadMessage, lines 78-161
Finish(s) ==
    LET a == Assemble(s)
        cHead == Slice(a.arr, 0, 2)
        branch == Detect(cHead)
        r == CASE branch = "gzip" -> GzipNewReader(a.buf)
               [] branch = "zlib" -> ZlibNewReader(a.buf)
               [] OTHER -> [ok |-> TRUE, stream |-> a.buf]
        dec == JsonDecode(r.stream)
        f == [s EXCEPT !.buf = a.buf, !.arr = a.arr, !.cHead = cHead,
                       !.branch = branch, !.stream = r.stream, !.pc = "done"]
    IN  IF ~r.ok THEN Fail(f, "newreader", "")
        ELSE IF ~dec.ok THEN Fail(f, "json", "")
        ELSE MapFields(f, dec.obj)

(***************************************************************************)
(* Datagrams.                                                              *)
(***************************************************************************)
IdA == <<1, 1, 1, 1, 1, 1, 1, 1>>

IdB == <<1, 1, 1, 1, 1, 1, 1, 2>>

Ids == {IdA, IdB}

\* [2-byte magic][8-byte id][sequence index][total][payload]
ChunkDatagram(id, seq, total, payload) ==
    magicChunked \o id \o <<seq, total>> \o payload

IsChunk(d) == Len(d) >= 2 /\ SubSeq(d, 1, 2) = magicChunked

\* the chunk datagrams of the general specification
GenPayloads == {<<>>, TextEmpty}

ChunkDatagrams ==
    {ChunkDatagram(id, q, t, p) :
        id \in Ids, q \in 0..MaxTotal, t \in 0..MaxTotal, p \in GenPayloads}

\* datagrams that do not start with the chunked magic, and two that are
\* shorter than a chunk header
PlainDatagrams ==
    {<<>>, <<30>>, TextEmpty, <<91, 93>>, GzipEncode(TextEmpty),
     ZlibEncode(TextEmpty), <<31, 139, 0>>, <<120, 187>>,
     SubSeq(ChunkDatagram(IdA, 0, 1, <<>>), 1, 11)}

Datagrams == ChunkDatagrams \cup PlainDatagrams

\* errors conn.Read can return
ReadErrors == {"EOF", "closed"}

(***************************************************************************)
(* What has happened in the call so far (read by the properties only).     *)
(***************************************************************************)
InitHist ==
    [first |-> Nil, firstId |-> Nil, mismatch |-> FALSE, plainAfter |-> FALSE,
     plainD |-> Nil, readErr |-> "", failReads |-> -1,
     firstTotal |-> -1, uniform |-> TRUE, offered |-> -1, last |-> Nil]

HistFail(h, s2) ==
    IF h.failReads = -1 /\ s2.err # NoErr THEN s2.reads ELSE h.failReads

\* a slot allocated at the first chunk is still empty
Incomplete(s) == \E i \in 1..Len(s.chunks) : s.chunks[i] = Nil

\* a datagram of at least two bytes that does not start with the chunked
\* magic, arriving after a chunk was accepted and before every slot is filled
PlainDuringAssembly(h, s, d) ==
    h.firstId # Nil /\ Incomplete(s) /\ Len(d) >= 2 /\ ~IsChunk(d)

\* a datagram that carries a whole chunk header
HasHeader(d) == IsChunk(d) /\ Len(d) >= chunkedHeaderLen

\* d is a chunk with the id and the total of the first chunk of the call
SameMessage(h, d) ==
    /\ HasHeader(d)
    /\ h.firstId # Nil => (SubSeq(d, 3, 10) = h.firstId /\ d[12] = h.firstTotal)

HistRecv(h, s, d, s2) ==
    [first |-> IF h.first = Nil THEN d ELSE h.first,
     firstId |-> IF h.firstId = Nil /\ IsChunk(d) /\ Len(d) >= chunkedHeaderLen
                 THEN SubSeq(d, 3, 10) ELSE h.firstId,
     mismatch |-> \/ h.mismatch
                  \/ /\ h.firstId # Nil
                     /\ IsChunk(d) /\ Len(d) >= chunkedHeaderLen
                     /\ SubSeq(d, 3, 10) # h.firstId,
     plainAfter |-> h.plainAfter \/ PlainDuringAssembly(h, s, d),
     plainD |-> IF PlainDuringAssembly(h, s, d) /\ ~h.plainAfter
                THEN d ELSE h.plainD,
     readErr |-> h.readErr,
     failReads |-> HistFail(h, s2),
     firstTotal |-> IF h.firstId = Nil /\ HasHeader(d)
                    THEN d[12] ELSE h.firstTotal,
     uniform |-> h.uniform /\ SameMessage(h, d),
     offered |-> s.blen,
     last |-> d]

(***************************************************************************)
(* The input a specification fixes at the start: the payload a sender      *)
(* splits into chunks (parts) and the order the chunks arrive in, the JSON *)
(* text and encoding the payload was made from, or a decoded object.       *)
(***************************************************************************)
NoInput ==
    [kind |-> "any", doc |-> <<>>, enc |-> "none", payload |-> <<>>,
     parts |-> <<>>, order |-> <<>>, obj |-> EmptyObject]

(***************************************************************************)
(* The actions of one call.                                                *)
(***************************************************************************)
\* conn.Read returns the datagram d and the loop body runs on it
Recv(d) ==
    /\ st.pc = "loop"
    /\ LoopCond(st)
    /\ st' = Iterate(st, d)
    /\ hist' = HistRecv(hist, st, d, st')

\* conn.Read returns an error: lines 176-178
RecvError(e) ==
    /\ st.pc = "loop"
    /\ LoopCond(st)
    /\ st' = Fail([st EXCEPT !.reads = @ + 1], "transport", e)
    /\ hist' = [hist EXCEPT !.readErr = e, !.failReads = HistFail(hist, st')]
    /\ UNCHANGED <<wire, inp, st2>>

\* the loop has ended: assembly, detection, decoding, mapping
Decode ==
    /\ st.pc \in {"brk", "loop"}
    /\ st.pc = "loop" => ~LoopCond(st)
    /\ st' = Finish(st)
    /\ hist' = [hist EXCEPT !.failReads = HistFail(hist, st')]
    /\ UNCHANGED <<wire, inp, st2>>

(***************************************************************************)
(* Spec: one call of ReadMessage on an arbitrary stream of datagrams.      *)
(***************************************************************************)
Init ==
    /\ st = InitCall
    /\ wire = <<>>
    /\ hist = InitHist
    /\ st2 = IdleCall
    /\ inp = NoInput

RecvAny ==
    /\ st.got < MaxGot
    /\ \E d \in Datagrams : Recv(d)
    /\ UNCHANGED <<wire, inp, st2>>

RecvFails ==
    /\ st.got < MaxGot
    /\ \E e \in ReadErrors : RecvError(e)

Next == RecvAny \/ RecvFails \/ Decode

Spec == Init /\ [][Next]_vars

(***************************************************************************)
(* SpecChunks: a sender splits a payload into chunks of one message id,    *)
(* total = number of chunks, and the datagrams arrive in some order; or    *)
(* the payload arrives as one unchunked datagram.                          *)
(***************************************************************************)
SetMin(S) == CHOOSE x \in S : \A y \in S : x <= y

\* the pieces of p when it is cut after each position of cuts
RECURSIVE Pieces(_, _, _)
Pieces(p, cuts, from) ==
    LET later == {c \in cuts : c >= from}
    IN  IF later = {} THEN <<SubSeq(p, from, Len(p))>>
        ELSE <<SubSeq(p, from, SetMin(later))>>
                 \o Pieces(p, cuts, SetMin(later) + 1)

Splits(p) ==
    {parts \in {Pieces(p, cuts, 1) : cuts \in SUBSET (1..(Len(p) - 1))} :
        /\ Len(parts) <= MaxTotal
        /\ \A i \in 1..Len(parts) : Len(parts[i]) <= MaxPayload}

Perms(n) == {f \in [1..n -> 1..n] : \A i, j \in 1..n : f[i] = f[j] => i = j}

Encode(enc, text) ==
    CASE enc = "gzip" -> GzipEncode(text)
      [] enc = "zlib" -> ZlibEncode(text)
      [] OTHER -> text

Encodings == {"none", "gzip", "zlib"}

\* payloads whose bytes all differ, and the JSON texts in each encoding
Sources ==
    {[doc |-> <<>>, enc |-> "none", payload |-> [i \in 1..n |-> 64 + i]] :
        n \in 1..(MaxPayload * MaxTotal)}
    \cup {[doc |-> t, enc |-> e, payload |-> Encode(e, t)] :
             t \in JsonTexts, e \in Encodings}

WireOf(parts, order) ==
    [k \in 1..Len(parts) |->
        ChunkDatagram(IdA, order[k] - 1, Len(parts), parts[order[k]])]

InitChunks ==
    /\ st = InitCall
    /\ hist = InitHist
    /\ st2 = IdleCall
    /\ \E src \in Sources :
          \/ \E parts \in Splits(src.payload) : \E order \in Perms(Len(parts)) :
                /\ inp = [NoInput EXCEPT !.kind = "chunks", !.doc = src.doc,
                                         !.enc = src.enc,
                                         !.payload = src.payload,
                                         !.parts = parts, !.order = order]
                /\ wire = WireOf(parts, order)
          \/ /\ Len(src.payload) <= ChunkSize
             /\ inp = [NoInput EXCEPT !.kind = "single", !.doc = src.doc,
                                      !.enc = src.enc, !.payload = src.payload]
             /\ wire = <<src.payload>>

\* conn.Read returns the next datagram that is waiting
Deliver ==
    /\ wire # <<>>
    /\ Recv(Head(wire))
    /\ wire' = Tail(wire)
    /\ UNCHANGED <<inp, st2>>

NextChunks == Deliver \/ Decode

SpecChunks == InitChunks /\ [][NextChunks]_vars

(***************************************************************************)
(* SpecDetect: every pair of first bytes, as one datagram, as one chunk,   *)
(* and as two chunks of one byte each.                                     *)
(***************************************************************************)
InitDetect ==
    /\ st = InitCall
    /\ hist = InitHist
    /\ st2 = IdleCall
    /\ \E b0 \in 0..255, b1 \in 0..255 :
          \/ /\ inp = [NoInput EXCEPT !.kind = "single", !.payload = <<b0, b1>>]
             /\ wire = <<(<<b0, b1>>)>>
          \/ \E parts \in {<<(<<b0, b1>>)>>, <<(<<b0>>), (<<b1>>)>>} :
                /\ inp = [NoInput EXCEPT !.kind = "chunks",
                                         !.payload = <<b0, b1>>,
                                         !.parts = parts,
                                         !.order = [k \in 1..Len(parts) |-> k]]
                /\ wire = WireOf(parts, [k \in 1..Len(parts) |-> k])

SpecDetect == InitDetect /\ [][NextChunks]_vars

(***************************************************************************)
(* SpecCap: a chunk stream that declares more chunks than the loop reads,  *)
(* repeats chunks and never completes.                                     *)
(***************************************************************************)
CapPayloads == {<<>>, <<123>>}

\* the sender's chunks all carry the payload chosen at the start
CapDatagrams ==
    {ChunkDatagram(IdA, q, t, inp.payload) : q \in {0, 1}, t \in {200, 255}}
    \cup {TextEmpty}

InitCap ==
    /\ st = InitCall
    /\ wire = <<>>
    /\ hist = InitHist
    /\ st2 = IdleCall
    /\ \E p \in CapPayloads : inp = [NoInput EXCEPT !.kind = "cap", !.payload = p]

RecvCap ==
    /\ \E d \in CapDatagrams : Recv(d)
    /\ UNCHANGED <<wire, inp, st2>>

RecvCapFails == \E e \in ReadErrors : RecvError(e)

NextCap == RecvCap \/ RecvCapFails \/ Decode

SpecCap == InitCap /\ [][NextCap]_vars

(***************************************************************************)
(* SpecTwo: two calls of ReadMessage on one Reader.  Each call has its own *)
(* locals (st, st2); both read from the one connection.  No line of the    *)
(* package locks Reader.mu, so nothing orders the receives of two calls    *)
(* made concurrently.  A run is either "concurrent" (the second call may   *)
(* start at any time) or "serial" (the callers themselves make the second  *)
(* call after the first has returned).                                     *)
(***************************************************************************)
\* p cut into chunks of c bytes, the last one shorter, as a sender does
ChunksOf(p, c) ==
    [i \in 1..((Len(p) + c - 1) \div c) |->
        SubSeq(p, (i - 1) * c + 1, Min(i * c, Len(p)))]

InitTwo ==
    /\ st = InitCall
    /\ st2 = IdleCall
    /\ hist = InitHist
    /\ \E t \in JsonTexts, e \in Encodings, c \in 1..MaxPayload,
          kind \in {"serial", "concurrent"} :
          LET parts == ChunksOf(Encode(e, t), c)
              order == [k \in 1..Len(parts) |-> k]
          IN  /\ Len(parts) \in 2..MaxTotal
              /\ inp = [NoInput EXCEPT !.kind = kind, !.doc = t, !.enc = e,
                                       !.payload = Encode(e, t),
                                       !.parts = parts, !.order = order]
              /\ wire = WireOf(parts, order)

\* the second call is made
Call2 ==
    /\ st2.pc = "idle"
    /\ inp.kind = "serial" => st.pc = "done"
    /\ st2' = InitCall
    /\ UNCHANGED <<st, wire, hist, inp>>

\* conn.Read of the second call returns the next datagram that is waiting
Deliver2 ==
    /\ wire # <<>>
    /\ st2.pc = "loop"
    /\ LoopCond(st2)
    /\ st2' = Iterate(st2, Head(wire))
    /\ wire' = Tail(wire)
    /\ UNCHANGED <<st, hist, inp>>

\* the loop of the second call has ended
Decode2 ==
    /\ st2.pc \in {"brk", "loop"}
    /\ st2.pc = "loop" => ~LoopCond(st2)
    /\ st2' = Finish(st2)
    /\ UNCHANGED <<st, wire, hist, inp>>

NextTwo == Deliver \/ Decode \/ Call2 \/ Deliver2 \/ Decode2

SpecTwo == InitTwo /\ [][NextTwo]_vars

(***************************************************************************)
(* SpecMap: ReadMessage's mapping of a decoded object onto a Message.      *)
(***************************************************************************)
\* keys of an object of the model
MaxKeys == 2

Values ==
    {JNull, JStr(""), JStr("x"), JStr("1.5"), JNum(7), JBool, JArr, JObj}

Keys ==
    {K_version, K_host, K_short_message, K_full_message, K_timestamp,
     K_level, K_facility, K_file, K_line,
     <<"_", "u">>, <<"_">>, <<"u">>, <<"_", "_", "u">>}

Objects ==
    UNION {[S -> Values] : S \in {T \in SUBSET Keys : Cardinality(T) <= MaxKeys}}

InitMap ==
    /\ st = [InitCall EXCEPT !.pc = "map"]
    /\ hist = InitHist
    /\ st2 = IdleCall
    /\ wire = <<>>
    /\ \E o \in Objects : inp = [NoInput EXCEPT !.kind = "map", !.obj = o]

Map ==
    /\ st.pc = "map"
    /\ st' = MapFields(st, inp.obj)
    /\ UNCHANGED <<wire, hist, inp, st2>>

NextMap == Map

SpecMap == InitMap /\ [][NextMap]_vars

(***************************************************************************)
(* Properties.                                                             *)
(***************************************************************************)
ReturnedError(kind) ==
    st.outcome = "returned" /\ st.msgNil /\ st.err.kind = kind

\* C1: once a chunk datagram has arrived whose message id differs from the
\* id of the first chunk of the call, the call has failed with the
\* out-of-band error and returns no Message.
C1_OutOfBandFails == hist.mismatch => ReturnedError("oob")

\* C2: a payload split into chunks of one id with total = N, delivered in
\* sequence-index order, is reassembled byte for byte before decompression.
C2_InOrderReassembly ==
    (/\ inp.kind = "chunks"
     /\ \A k \in 1..Len(inp.order) : inp.order[k] = k
     /\ st.branch # "none")
        => st.buf = inp.payload

\* C3: whatever the arrival order of the N chunks, the call gets to the
\* assembly and the reassembled buffer is the original payload.
C3_AnyOrderReassembly ==
    (inp.kind = "chunks" /\ st.pc = "done")
        => (st.outcome # "panic" /\ st.branch # "none" /\ st.buf = inp.payload)

\* C4: a call in which an unchunked datagram arrived during an incomplete
\* chunked assembly ends with an error and no Message, and the datagram is
\* not the buffer that gets decoded.
C4_PlainDuringAssemblyFails ==
    (hist.plainAfter /\ st.pc = "done") =>
        /\ st.outcome = "returned" /\ st.msgNil /\ st.err # NoErr
        /\ st.buf # hist.plainD

FirstPlain == hist.first # Nil /\ ~IsChunk(hist.first)

\* C5: when the first datagram of the call does not start with the chunked
\* magic, the call has made exactly one receive and makes no other, and the
\* buffer handed to compression detection is that datagram.
C5_SingleReceive ==
    FirstPlain =>
        /\ st.reads = 1
        /\ st.pc \in {"brk", "done"}
        /\ st.pc = "done" => (st.branch # "none" /\ st.buf = hist.first)

C5_Witness ==
    FirstPlain /\ st.pc = "done" /\ Len(st.buf) >= 2 /\ st.buf = hist.first

\* C6: a call never makes more than 128 receives, and after the 128th the
\* loop has ended: the next step is assembly and decoding.
C6_ReceiveCap ==
    /\ st.reads <= MaxReceives
    /\ st.reads = MaxReceives => ~(st.pc = "loop" /\ LoopCond(st))

C6_Witness ==
    st.reads = MaxReceives /\ st.pc = "done" /\ st.total > MaxReceives

ClaimedBranch(b0, b1) ==
    IF <<b0, b1>> = <<31, 139>> THEN "gzip"
    ELSE IF b0 = 120 /\ (b0 * 256 + b1) % 31 = 0 THEN "zlib"
    ELSE "plain"

\* C8: the reader chosen is a function of the first two bytes of the
\* reassembled buffer: gzip for the gzip magic, else zlib for the zlib byte
\* and a multiple of 31, else the buffer itself as uncompressed payload.
C8_Detection ==
    (st.branch # "none" /\ Len(st.buf) >= 2) =>
        /\ st.branch = ClaimedBranch(st.buf[1], st.buf[2])
        /\ st.branch = "plain" => st.stream = st.buf
        /\ st.buf = inp.payload

C8_Witness ==
    /\ inp.kind = "chunks" /\ Len(inp.parts) = 2
    /\ st.branch = "zlib" /\ st.buf = <<120, 156>>

\* C9: a JSON text delivered gzip-compressed, zlib-compressed or
\* uncompressed, as one datagram or as a complete chunk set, yields the
\* Message of that text.
C9_SameMessageForEveryEncoding ==
    (inp.doc # <<>> /\ st.pc = "done") =>
        /\ st.outcome = "returned" /\ ~st.msgNil
        /\ st.msg = MapMessage(ObjectOf(inp.doc))

NonNullUnderscore(o) == {k \in DOMAIN o : k[1] = "_" /\ o[k] # JNull}

\* C10: Extra holds (k', v) exactly for the top-level keys "_" + k' with a
\* non-null value v, stores v unchanged, and is set exactly when there is
\* such a key.
C10_Extra ==
    (inp.kind = "map" /\ st.outcome = "returned") =>
        LET o == inp.obj
            E == st.msg.Extra
        IN  /\ \A x \in Keys \cup {Tail(k) : k \in Keys} :
                  x \in DOMAIN E.m <=>
                      (<<"_">> \o x \in DOMAIN o /\ o[<<"_">> \o x] # JNull)
            /\ DOMAIN E.m \subseteq {Tail(k) : k \in DOMAIN o}
            /\ \A x \in DOMAIN E.m : E.m[x] = o[<<"_">> \o x]
            /\ E.isNil <=> NonNullUnderscore(o) = {}
            /\ E.isNil <=> DOMAIN E.m = {}

C10_Witness ==
    /\ inp.kind = "map" /\ st.outcome = "returned"
    /\ DOMAIN inp.obj = {<<"_", "u">>, <<"u">>}
    /\ inp.obj[<<"_", "u">>] = JStr("x")
    /\ st.msg.Extra.m[<<"u">>] = JStr("x")

RecognizedKeys ==
    {K_version, K_host, K_short_message, K_full_message, K_timestamp,
     K_level, K_facility, K_file, K_line}

StringTypedKeys == {K_version, K_host, K_facility, K_file}

AssertedKeys == StringTypedKeys \cup {K_short_message, K_full_message}

\* C11: when version, host, facility or file holds a value that is neither
\* null nor a string, ReadMessage returns an error and no Message; it does
\* not panic.
C11_TypeMismatchIsAnError ==
    (/\ inp.kind = "map" /\ st.pc = "done"
     /\ \E k \in StringTypedKeys \cap DOMAIN inp.obj :
           inp.obj[k].t \notin {"null", "str"})
        => (st.outcome = "returned" /\ st.msgNil /\ st.err # NoErr)

AbsentOrNull(o, k) == k \notin DOMAIN o \/ o[k] = JNull

FieldOf(msg, k) ==
    CASE k = K_version -> msg.Version
      [] k = K_host -> msg.Host
      [] k = K_short_message -> msg.Short
      [] k = K_full_message -> msg.Full
      [] k = K_timestamp -> msg.TimeUnix
      [] k = K_level -> msg.Level
      [] k = K_facility -> msg.Facility
      [] k = K_file -> msg.File
      [] k = K_line -> msg.Line

DefaultOf(k) == IF k \in {K_timestamp, K_level, K_line} THEN 0 ELSE ""

WithoutNulls(o) == [k \in {x \in DOMAIN o : o[x] # JNull} |-> o[k]]

WellTyped(o) ==
    \A k \in AssertedKeys \cap DOMAIN o : o[k].t \in {"null", "str"}

\* C12: a recognized key that is absent or null leaves its field at the
\* zero default and does not make the mapping fail; the result for an
\* object is the result for the object without its null entries; an object
\* with no recognized key maps to the all-default Message.
C12_AbsentOrNullKeepsDefault ==
    (inp.kind = "map" /\ st.pc = "done") =>
        LET o == inp.obj
        IN  /\ WellTyped(o) => (st.outcome = "returned" /\ ~st.msgNil)
            /\ st.outcome = "returned" =>
                  /\ \A k \in RecognizedKeys :
                        AbsentOrNull(o, k) => FieldOf(st.msg, k) = DefaultOf(k)
                  /\ st.msg = MapMessage(WithoutNulls(o))
            /\ st.outcome = "panic" <=> MapPanics(WithoutNulls(o))
            /\ (\A k \in RecognizedKeys : AbsentOrNull(o, k)) =>
                  /\ st.outcome = "returned"
                  /\ [st.msg EXCEPT !.Extra = ZeroMessage.Extra] = ZeroMessage

C12_Witness ==
    /\ inp.kind = "map" /\ st.outcome = "returned"
    /\ DOMAIN inp.obj = {K_host, K_level}
    /\ inp.obj[K_host] = JNull /\ inp.obj[K_level] = JNull
    /\ st.msg = ZeroMessage

TimeClaimed(v) ==
    CASE v.t = "num" -> v.n
      [] v = JStr("1.5") -> 3
      [] OTHER -> 0

\* C13: a timestamp that is a JSON number is assigned as it is, a string
\* that parses as a float is assigned the parsed value, and an unparsable
\* string, a boolean, an array or an object leaves TimeUnix at 0 without
\* failing the call.
C13_Timestamp ==
    (/\ inp.kind = "map" /\ st.pc = "done"
     /\ K_timestamp \in DOMAIN inp.obj /\ WellTyped(inp.obj))
        => /\ st.outcome = "returned" /\ ~st.msgNil /\ st.err = NoErr
           /\ st.msg.TimeUnix = TimeClaimed(inp.obj[K_timestamp])

C13_Witness ==
    /\ inp.kind = "map" /\ st.outcome = "returned"
    /\ K_timestamp \in DOMAIN inp.obj
    /\ inp.obj[K_timestamp] = JStr("1.5")
    /\ st.msg.TimeUnix = 3

\* the loop of a chunked assembly has ended without error: every datagram
\* was a chunk of one id and one total, and the call went on to assembly
AssemblyEnded ==
    /\ hist.firstId # Nil /\ hist.uniform /\ hist.readErr = ""
    /\ st.branch # "none"

\* C15: when the receive loop of a chunked assembly with one id and one
\* total ends without error after fewer than 128 receives, a payload has
\* been stored for every index 0..total-1, also when a chunk came twice.
C15_EveryIndexStored ==
    (AssemblyEnded /\ st.reads < MaxReceives) =>
        /\ Len(st.chunks) = hist.firstTotal
        /\ ~Incomplete(st)

\* C17: every receive offers a buffer of ChunkSize bytes, so what a
\* receive accepts is the datagram itself whatever came before it.
C17_FullBufferEachReceive ==
    (hist.last # Nil /\ st.branch = "none") =>
        /\ hist.offered = ChunkSize
        /\ st.blen = Min(Len(hist.last), ChunkSize)
        /\ Slice(st.arr, 0, st.blen) = SubSeq(hist.last, 1, st.blen)

\* C18: from the first chunk on, after every chunk received and until the
\* loop ends, the recorded id is the id of the first chunk.
C18_RecordedIdIsFirstId ==
    (/\ hist.firstId # Nil /\ HasHeader(hist.last)
     /\ st.ocid = "alias" /\ st.branch = "none")
        => OcidValue(st) = hist.firstId

\* C19: the call never aborts on the store of a chunk payload: the index
\* of every store is inside the storage allocated at the first chunk.
C19_StoreInsideStorage ==
    ~(/\ st.outcome = "panic" /\ st.branch = "none"
      /\ st.blen >= chunkedHeaderLen)

\* C20: the total that bounds the loop is the total of the first chunk,
\* and the call makes no more receives than that total.
C20_TotalIsFirstTotal ==
    hist.firstTotal >= 1 =>
        /\ st.total = hist.firstTotal
        /\ st.reads <= hist.firstTotal

\* the 128th receive has been made, a slot is still empty and the call
\* went on to assembly
CapReached ==
    /\ hist.firstId # Nil /\ st.reads = MaxReceives /\ Incomplete(st)
    /\ st.branch # "none"

\* C16: when the cap of 128 receives is reached before every declared
\* chunk arrived, the buffer handed to compression detection is the
\* concatenation, in index order, of the payloads stored (the last one
\* written per index, nothing for an index never written), and the call
\* returns; an error can only come from decompression or JSON decoding.
C16_CapConcatenatesStored ==
    CapReached =>
        /\ \A i \in 1..Len(st.chunks) : st.chunks[i] \in {Nil, inp.payload}
        /\ st.buf = Concat(st.chunks)
        /\ st.outcome = "returned"
        /\ st.err # NoErr => st.err.kind \in {"newreader", "json"}

ReturnsOriginal(s) ==
    /\ s.outcome = "returned" /\ ~s.msgNil /\ s.err = NoErr
    /\ s.buf = inp.payload
    /\ s.msg = MapMessage(ObjectOf(inp.doc))

\* both calls have taken datagrams of the message
SplitBetweenCalls == st.reads >= 1 /\ st2.reads >= 1

\* C14: nothing orders the receives of two concurrent calls: the chunks of
\* one message can be split between them, and then neither call returns
\* the message; when the calls are made one after the other, the first
\* makes every receive and returns the message.
C14_ConcurrentCallsSplitChunks ==
    /\ (inp.kind = "serial" /\ st.pc = "done") =>
          /\ ReturnsOriginal(st)
          /\ st.reads = Len(inp.parts)
    /\ inp.kind = "serial" => st2.reads = 0
    /\ SplitBetweenCalls =>
          /\ inp.kind = "concurrent"
          /\ ~ReturnsOriginal(st) /\ ~ReturnsOriginal(st2)

\* every chunk was delivered, each call took some, and both still wait
C14_Witness ==
    /\ inp.kind = "concurrent" /\ wire = <<>> /\ SplitBetweenCalls
    /\ st.reads + st2.reads = Len(inp.parts)
    /\ st.pc = "loop" /\ LoopCond(st)
    /\ st2.pc = "loop" /\ LoopCond(st2)

====
